---- MODULE Spec2Model ----
(***************************************************************************)
(* A model of code_validation.py: a directory of python files is parsed    *)
(* one file at a time; each file is checked against the coding standards   *)
(* and a markdown report is written per file.                              *)
(*                                                                         *)
(* Text is modelled as a sequence of tokens, each a run of characters of   *)
(* one class with its length n, so that len(), strip(), startswith(), the  *)
(* regular expressions and '\n'.join / count('\n') are computed on the     *)
(* characters the code sees (a 150 character line is one token of n = 150).*)
(***************************************************************************)
EXTENDS Integers, Sequences, FiniteSets, TLC

\* ------------------------------------------------------------ constants
MAX_FILE_LINES == 2000
MAX_LINE_CHARACTERS == 150
MAX_VARIABLE_NAME_LENGTH == 25
MAX_LINES_PER_METHOD == 40

\* Number of python files get_all_python_files finds in the directory.
MaxFiles == 2

\* ------------------------------------------------------------ text
\* Token classes: "sp" spaces, "nl" a newline, "hash" '#', "tq" a triple
\* quote, "w" a run of word characters (\w) named by id, "eq" '=',
\* "star" '*', "p" other punctuation.
Tok(t, n, id) == [t |-> t, n |-> n, id |-> id]
SP(n) == Tok("sp", n, "")
NL == Tok("nl", 1, "")
HASH == Tok("hash", 1, "")
TQ == Tok("tq", 3, "")
EQ == Tok("eq", 1, "")
STAR == Tok("star", 1, "")
P(n) == Tok("p", n, "")
W(id, n) == Tok("w", n, id)

\* Words that begin with two underscores, and words w with w.upper() == w.
DunderIds == {"__init__", "__f__"}
UpperIds == {"MAX_RETRY_COUNT_FOR_THE_CONNECTION"}

\* len(s)
RECURSIVE StrLen(_)
StrLen(s) == IF s = <<>> THEN 0 ELSE Head(s).n + StrLen(Tail(s))

IsSpace(tok) == tok.t \in {"sp", "nl"}

\* s.lstrip() / s.rstrip() / s.strip()
RECURSIVE LStrip(_)
LStrip(s) == IF s # <<>> /\ IsSpace(Head(s)) THEN LStrip(Tail(s)) ELSE s

RECURSIVE RStrip(_)
RStrip(s) ==
    IF s # <<>> /\ IsSpace(s[Len(s)]) THEN RStrip(SubSeq(s, 1, Len(s) - 1)) ELSE s

Strip(s) == RStrip(LStrip(s))

\* s.strip().startswith('#')
StartsWithHash(s) == LET r == Strip(s) IN r # <<>> /\ Head(r).t = "hash"

\* s.strip().startswith("import")
StartsWithImport(s) ==
    LET r == Strip(s) IN r # <<>> /\ Head(r).t = "w" /\ Head(r).id = "import"

\* Index of the first token of class t at or after position i, 0 when none.
FindTok(s, t, i) ==
    IF \A k \in i..Len(s) : s[k].t # t THEN 0
    ELSE CHOOSE k \in i..Len(s) : s[k].t = t /\ \A j \in i..(k - 1) : s[j].t # t

\* re.sub(r'#.*', '', s): '.' does not match a newline, so each '#' is removed
\* with everything up to, not including, the next newline.
RECURSIVE SubComment(_)
SubComment(s) ==
    LET h == FindTok(s, "hash", 1) IN
    IF h = 0 THEN s
    ELSE LET e == FindTok(s, "nl", h) IN
         IF e = 0 THEN SubSeq(s, 1, h - 1)
         ELSE SubSeq(s, 1, h - 1) \o SubComment(SubSeq(s, e, Len(s)))

\* s.count('\n')
CountNL(s) == Cardinality({i \in 1..Len(s) : s[i].t = "nl"})

\* '\n'.join(lines)
RECURSIVE JoinNL(_)
JoinNL(ls) ==
    IF ls = <<>> THEN <<>>
    ELSE IF Len(ls) = 1 THEN ls[1]
    ELSE LET h == Len(ls) \div 2
         IN  JoinNL(SubSeq(ls, 1, h)) \o <<NL>> \o JoinNL(SubSeq(ls, h + 1, Len(ls)))

\* One line of str.splitlines(): the line without its line ending.
SplitLine(l) == IF l # <<>> /\ l[Len(l)].t = "nl" THEN SubSeq(l, 1, Len(l) - 1) ELSE l

\* file.read().splitlines() of a file whose readlines() is ls
SplitLines(ls) == [i \in 1..Len(ls) |-> SplitLine(ls[i])]

\* ------------------------------------------------------------ python
\* A raised exception or a returned value.
Ret(v) == [err |-> "none", val |-> v]
Raise(e) == [err |-> e, val |-> <<>>]

\* seq[i] with python's indexing: a negative index counts from the end.
InRange(s, i) == (i >= 0 /\ i < Len(s)) \/ (i < 0 /\ -i <= Len(s))
PyIndex(s, i) == IF i >= 0 THEN s[i + 1] ELSE s[Len(s) + i + 1]

\* ------------------------------------------------------------ files
\* A python file: lines is what readlines() returns (each line with its
\* newline, the last one possibly without); the rest is what ast.parse makes
\* of the text: valid (FALSE: SyntaxError), body0 (the first top-level
\* statement: "none", "str" a string-literal expression, "other") and nodes,
\* the class and function definitions in ast.walk order, each with its name,
\* lineno, end_lineno and doc (ast.get_docstring is non-empty).
Node(type, name, lineno, end_lineno, doc) ==
    [type |-> type, name |-> name, lineno |-> lineno, end_lineno |-> end_lineno,
     doc |-> doc]

Piece(lines, body0, nodes) ==
    [lines |-> lines, valid |-> TRUE, body0 |-> body0, nodes |-> nodes]

ShiftNode(nd, k) ==
    [nd EXCEPT !.lineno = nd.lineno + k, !.end_lineno = nd.end_lineno + k]

\* The text of a followed by the text of b.
Concat(a, b) ==
    [lines |-> a.lines \o b.lines,
     valid |-> a.valid /\ b.valid,
     body0 |-> IF a.body0 = "none" THEN b.body0 ELSE a.body0,
     nodes |-> a.nodes \o [i \in 1..Len(b.nodes) |-> ShiftNode(b.nodes[i], Len(a.lines))]]

\* The file of a piece: every line ends with a newline, the last one only
\* when lastNL.
MkFile(piece, lastNL) ==
    [piece EXCEPT !.lines = [i \in 1..Len(piece.lines) |->
        IF i < Len(piece.lines) \/ lastNL THEN piece.lines[i] \o <<NL>>
        ELSE piece.lines[i]]]

Rep(x, n) == [i \in 1..n |-> x]
Indent(k) == IF k > 0 THEN <<SP(k)>> ELSE <<>>

NameLen(id) ==
    CASE id = "__init__" -> 8
      [] id = "__f__" -> 5
      [] OTHER -> 1

\* "aaa...a" of k characters, and the same followed by a comment
StmtLine(k) == <<W("stmt", k)>>
StmtCommentLine(k) == <<W("stmt", k), SP(2), HASH, SP(1), W("note", 4)>>
\* "    x = 1"
BodyLine == <<SP(4), W("x", 1), SP(1), EQ, SP(1), W("1", 1)>>
\* "# note" at indentation k, of 6 + extra characters
CommentLine(k, extra) == Indent(k) \o <<HASH, SP(1), W("note", 4 + extra)>>
BlankLine == <<>>
\* "def f():" and "class K:"
DefLine(name) == <<W("def", 3), SP(1), W(name, NameLen(name)), P(3)>>
ClassLine(name) == <<W("class", 5), SP(1), W(name, NameLen(name)), P(1)>>
\* a docstring of n lines at indentation k
DocLines(k, n) ==
    IF n = 0 THEN <<>>
    ELSE IF n = 1 THEN <<Indent(k) \o <<TQ, W("doc", 3), TQ>>>>
    ELSE <<Indent(k) \o <<TQ, W("doc", 3)>>>>
         \o Rep(Indent(k) \o <<W("doc", 3)>>, n - 2)
         \o <<Indent(k) \o <<TQ>>>>
\* "from os import *", "import os", "from os import path"
FromStarLine == <<W("from", 4), SP(1), W("os", 2), SP(1), W("import", 6), SP(1), STAR>>
ImportLine == <<W("import", 6), SP(1), W("os", 2)>>
FromLine == <<W("from", 4), SP(1), W("os", 2), SP(1), W("import", 6), SP(1), W("path", 4)>>
\* "<name of k characters> = 1"
AssignLine(id, k) == <<W(id, k), SP(1), EQ, SP(1), W("1", 1)>>

\* Pieces of text with their syntax trees.
Stmt(line) == Piece(<<line>>, "other", <<>>)
Comment(extra) == Piece(<<CommentLine(0, extra)>>, "none", <<>>)
Blank == Piece(<<BlankLine>>, "none", <<>>)
ModuleDoc == Piece(DocLines(0, 1), "str", <<>>)
\* A function: its def line, a docstring of ndoc lines, nbody statements and,
\* when midc, a comment line before the last statement.
Func(name, ndoc, nbody, midc) ==
    Piece(<<DefLine(name)>> \o DocLines(4, ndoc) \o Rep(BodyLine, nbody - 1)
          \o (IF midc THEN <<CommentLine(4, 0)>> ELSE <<>>) \o <<BodyLine>>,
          "other",
          <<Node("FunctionDef", name, 1, 1 + ndoc + nbody + (IF midc THEN 1 ELSE 0),
                 ndoc > 0)>>)
Class(name, ndoc) ==
    Piece(<<ClassLine(name)>> \o DocLines(4, ndoc) \o <<BodyLine>>, "other",
          <<Node("ClassDef", name, 1, 2 + ndoc, ndoc > 0)>>)
\* Text that is not python: ast.parse raises SyntaxError.
Garbage ==
    [lines |-> <<<<W("x", 1), SP(1), EQ, SP(1), P(1)>>>>, valid |-> FALSE,
     body0 |-> "none", nodes |-> <<>>]
EmptyPiece == Piece(<<>>, "none", <<>>)

\* ------------------------------------------------------------ checks
\* The 1-indexed numbers of the lines whose flag is TRUE, in order.
LineNumbers(flags) ==
    SelectSeq([i \in 1..Len(flags) |-> i], LAMBDA i : flags[i])

\* re.search(r'from\s(.*)\simport\s', line): the word "from" and one
\* whitespace character starting at token i, one whitespace character and
\* the word "import" followed by whitespace at token j.
FromAt(s, i) == i < Len(s) /\ s[i].t = "w" /\ s[i].id = "from" /\ IsSpace(s[i + 1])
ImportAt(s, j) ==
    /\ j > 1 /\ j < Len(s)
    /\ s[j].t = "w" /\ s[j].id = "import"
    /\ IsSpace(s[j - 1]) /\ IsSpace(s[j + 1])
FromImportAt(s, i, j) ==
    /\ FromAt(s, i) /\ ImportAt(s, j) /\ i + 1 <= j - 1
    /\ (i + 1 = j - 1 => s[i + 1].n >= 2)
    /\ \A k \in (i + 1)..(j - 1) : s[k].t # "nl"
FromImportMatches(s) ==
    {m \in (1..Len(s)) \X (1..Len(s)) : FromImportAt(s, m[1], m[2])}
\* The match the search returns: the leftmost "from", the group greedy.
FromImportMatch(s) ==
    CHOOSE m \in FromImportMatches(s) :
        \A o \in FromImportMatches(s) :
            m[1] < o[1] \/ (m[1] = o[1] /\ m[2] >= o[2])
\* A run of spaces less k characters.
TrimSp(tok, k) == IF tok.n > k THEN <<SP(tok.n - k)>> ELSE <<>>
\* from_import_match.groups()[0]
FromModule(s) ==
    LET m == FromImportMatch(s)
        i == m[1]
        j == m[2]
    IN  IF i + 1 = j - 1 THEN TrimSp(s[i + 1], 2)
        ELSE TrimSp(s[i + 1], 1) \o SubSeq(s, i + 2, j - 2) \o TrimSp(s[j - 1], 1)
\* 'import *' in line
HasImportStar(s) ==
    \E k \in 1..(Len(s) - 2) :
        /\ s[k].t = "w" /\ s[k].id = "import"
        /\ s[k + 1].t = "sp" /\ s[k + 1].n = 1
        /\ s[k + 2].t = "star"

IsInvalidImport(line) ==
    /\ ~StartsWithImport(line)
    /\ FromImportMatches(line) # {}
    /\ HasImportStar(line)

check_invalid_imports(implementation) ==
    LET idx == LineNumbers([i \in 1..Len(implementation) |-> IsInvalidImport(implementation[i])])
    IN  [k \in 1..Len(idx) |-> FromModule(implementation[idx[k]])]

\* has_file_docstring: ast.parse raises on text that is not python, and
\* tree.body[0] raises on a module without statements.
has_file_docstring(file) ==
    IF ~file.valid THEN Raise("SyntaxError")
    ELSE IF file.body0 = "none" THEN Raise("IndexError")
    ELSE Ret(file.body0 = "str")

check_for_file_header(file, implementation) ==
    IF ~InRange(implementation, 0) THEN Raise("IndexError")
    ELSE IF StartsWithHash(PyIndex(implementation, 0)) THEN Ret(TRUE)
    ELSE LET d == has_file_docstring(file)
         IN  IF d.err # "none" THEN d ELSE Ret(d.val)

\* re.sub(r'""".*?"""', '', source_code, flags=re.DOTALL)
RECURSIVE remove_docstring(_)
remove_docstring(source_code) ==
    LET i == FindTok(source_code, "tq", 1) IN
    IF i = 0 THEN source_code
    ELSE LET j == FindTok(source_code, "tq", i + 1) IN
         IF j = 0 THEN source_code
         ELSE SubSeq(source_code, 1, i - 1)
              \o remove_docstring(SubSeq(source_code, j + 1, Len(source_code)))

\* The while loop of check_module_using_comment_header from
\* current_line_index on; implementation[...] raises IndexError out of range.
RECURSIVE CommentHeaderLoop(_, _, _)
CommentHeaderLoop(implementation, current_line_index, has_comment_header) ==
    IF ~InRange(implementation, current_line_index) THEN Raise("IndexError")
    ELSE IF StartsWithHash(PyIndex(implementation, current_line_index))
    THEN CommentHeaderLoop(implementation, current_line_index - 1, TRUE)
    ELSE Ret(has_comment_header)

check_module_using_comment_header(implementation, start_line) ==
    CommentHeaderLoop(implementation, start_line - 1, FALSE)

\* 'def __' in line
HasDefDunder(s) ==
    \E k \in 1..(Len(s) - 2) :
        /\ s[k].t = "w" /\ s[k].id = "def"
        /\ s[k + 1].t = "sp" /\ s[k + 1].n = 1
        /\ s[k + 2].t = "w" /\ s[k + 2].id \in DunderIds

\* The check without the exemption of 'def __'.
SkipsNothing(type, line) == FALSE

\* if 'def __' in code.splitlines()[start_line]: continue, which only
\* check_functions_headers has.
SkipsDefinition(type, line) == type = "FunctionDef" /\ HasDefDunder(line)

\* The loop over ast.walk(tree) of check_class_headers (type "ClassDef") and
\* of check_functions_headers (type "FunctionDef", which skips 'def __').
RECURSIVE HeaderLoop(_, _, _, _)
HeaderLoop(nodes, code_lines, type, no_header) ==
    IF nodes = <<>> THEN Ret(no_header)
    ELSE LET node == Head(nodes)
             start_line == node.lineno - 1
         IN  IF node.type # type THEN HeaderLoop(Tail(nodes), code_lines, type, no_header)
             ELSE IF SkipsDefinition(type, code_lines[start_line + 1])
             THEN HeaderLoop(Tail(nodes), code_lines, type, no_header)
             ELSE LET c == check_module_using_comment_header(code_lines, start_line)
                  IN  IF c.err # "none" THEN c
                      ELSE IF ~node.doc /\ ~c.val
                      THEN HeaderLoop(Tail(nodes), code_lines, type,
                                      Append(no_header, node.name))
                      ELSE HeaderLoop(Tail(nodes), code_lines, type, no_header)

check_class_headers(file) ==
    IF ~file.valid THEN Raise("SyntaxError")
    ELSE HeaderLoop(file.nodes, SplitLines(file.lines), "ClassDef", <<>>)

check_functions_headers(file) ==
    IF ~file.valid THEN Raise("SyntaxError")
    ELSE HeaderLoop(file.nodes, SplitLines(file.lines), "FunctionDef", <<>>)

\* The text whose newlines check_functions_less_than_40_lines counts: the
\* lines lineno..end_lineno without the comment lines, joined, without the
\* docstrings. (Every node has end_lineno from python 3.8 on, so the fallback
\* of line 162 is never taken.)
FunctionCode(code_lines, node) ==
    LET function_code == SubSeq(code_lines, node.lineno, node.end_lineno)
        kept == SelectSeq(function_code, LAMBDA l : ~StartsWithHash(l))
    IN  remove_docstring(JoinNL(kept))

IsLongFunction(code_lines, node) ==
    CountNL(FunctionCode(code_lines, node)) > MAX_LINES_PER_METHOD

check_functions_less_than_40_lines(file) ==
    IF ~file.valid THEN Raise("SyntaxError")
    ELSE LET code_lines == SplitLines(file.lines)
             long == SelectSeq(file.nodes, LAMBDA nd :
                         nd.type = "FunctionDef" /\ IsLongFunction(code_lines, nd))
         IN  Ret([k \in 1..Len(long) |-> long[k].name])

\* re.search(r'\b(\w+)\s*=', line): the first word followed by '=', 0 if none.
AssignAt(s, k) ==
    /\ s[k].t = "w"
    /\ \/ (k + 1 <= Len(s) /\ s[k + 1].t = "eq")
       \/ (k + 2 <= Len(s) /\ IsSpace(s[k + 1]) /\ s[k + 2].t = "eq")
RECURSIVE FindAssign(_, _)
FindAssign(s, k) ==
    IF k > Len(s) THEN 0 ELSE IF AssignAt(s, k) THEN k ELSE FindAssign(s, k + 1)

IsLongVariable(line) ==
    LET k == FindAssign(line, 1)
    IN  /\ k # 0
        /\ line[k].id \notin UpperIds
        /\ line[k].n > MAX_VARIABLE_NAME_LENGTH

check_implementation_variable_length(implementation_lines) ==
    LineNumbers([i \in 1..Len(implementation_lines) |->
                    IsLongVariable(implementation_lines[i])])

IsLongLine(line) ==
    /\ ~StartsWithHash(line)
    /\ StrLen(SubComment(line)) > MAX_LINE_CHARACTERS

check_implementation_line_length(implementation_lines) ==
    LineNumbers([i \in 1..Len(implementation_lines) |->
                    IsLongLine(implementation_lines[i])])

check_file_too_large(implementation_lines) ==
    Len(implementation_lines) <= MAX_FILE_LINES

\* ------------------------------------------------------------ report data
\* A violation list of specific_file_information: None, or a list.
None == [set |-> FALSE, items |-> <<>>]
List(l) == [set |-> TRUE, items |-> l]

\* A string of the report is a sequence of its lines; "" is <<>>.
CHECKBOX_OUTLINE(mark, text) == [mark |-> mark, text |-> text]
LineNumberString(line_number) == <<"Line Number - ", line_number>>

FlagNames ==
    {"FILE_HEADER_EXISTS", "EXCEPTABLE_FILE_SIZE", "VALID_IMPORTS", "VALID_LINE_LENGTHS",
     "CLASSES_HAVE_HEADERS", "FUNCTIONS_HAVE_HEADERS", "VALID_FUNCTION_LENGTHS",
     "VALID_VARIABLE_LENGTHS"}
CheckboxNames ==
    {"INVALID_IMPORT_CHECKBOXES", "INVALID_LINE_LENGTH_CHECKBOXES",
     "CLASSES_WITHOUT_HEADERS_CHECKBOXES", "FUNCTIONS_WITHOUT_HEADERS_CHECKBOXES",
     "INVALID_FUNCTION_LENGTH_CHECKBOXES", "INVALID_VARIABLE_LENGTH_CHECKBOXES"}
ListNames ==
    {"INVALID_IMPORTS", "INVALID_LENGTHY_LINES", "HEADLESS_CLASSES", "HEADLESS_FUNCTIONS",
     "INVALID_LENGTHY_FUNCTIONS", "INVALID_LENGTHY_VARIABLES"}

\* The module's globals before the first call of set_data_for_parsing.
Undefined == [defined |-> FALSE]

\* The dictionaries set_data_for_parsing creates.
FreshTemplateVariables ==
    [SCRIPT_NAME |-> "",
     FILE_HEADER_EXISTS |-> TRUE,
     EXCEPTABLE_FILE_SIZE |-> TRUE,
     VALID_IMPORTS |-> TRUE,
     VALID_LINE_LENGTHS |-> TRUE,
     CLASSES_HAVE_HEADERS |-> TRUE,
     FUNCTIONS_HAVE_HEADERS |-> TRUE,
     VALID_FUNCTION_LENGTHS |-> TRUE,
     VALID_VARIABLE_LENGTHS |-> TRUE,
     INVALID_IMPORT_CHECKBOXES |-> <<>>,
     INVALID_LINE_LENGTH_CHECKBOXES |-> <<>>,
     CLASSES_WITHOUT_HEADERS_CHECKBOXES |-> <<>>,
     FUNCTIONS_WITHOUT_HEADERS_CHECKBOXES |-> <<>>,
     INVALID_FUNCTION_LENGTH_CHECKBOXES |-> <<>>,
     INVALID_VARIABLE_LENGTH_CHECKBOXES |-> <<>>]
FreshFileInformation ==
    [INVALID_IMPORTS |-> None,
     INVALID_LENGTHY_LINES |-> None,
     HEADLESS_CLASSES |-> None,
     HEADLESS_FUNCTIONS |-> None,
     INVALID_LENGTHY_FUNCTIONS |-> None,
     INVALID_LENGTHY_VARIABLES |-> None]

\* One for loop of generate_validation_output: for each item of the list,
\* the flag is cleared and a checkbox line is added to the string.
\* The text of an item's checkbox: a line number is formatted, a name is not.
ItemText(item, numbered) == IF numbered THEN LineNumberString(item) ELSE item

RECURSIVE AddCheckboxes(_, _, _, _, _)
AddCheckboxes(tv, items, flag, boxes, numbered) ==
    IF items = <<>> THEN tv
    ELSE AddCheckboxes(
            [tv EXCEPT ![flag] = FALSE,
                       ![boxes] = Append(@, CHECKBOX_OUTLINE(" ", ItemText(Head(items), numbered)))],
            Tail(items), flag, boxes, numbered)

\* The loops with the loop over HEADLESS_CLASSES clearing the flag of the
\* functions.
generate_validation_output_wrong_flag(tv, sfi) ==
    LET t1 == AddCheckboxes(tv, sfi.INVALID_LENGTHY_LINES.items,
                  "VALID_LINE_LENGTHS", "INVALID_LINE_LENGTH_CHECKBOXES", TRUE)
        t2 == AddCheckboxes(t1, sfi.INVALID_LENGTHY_VARIABLES.items,
                  "VALID_VARIABLE_LENGTHS", "INVALID_VARIABLE_LENGTH_CHECKBOXES", TRUE)
        t3 == AddCheckboxes(t2, sfi.INVALID_LENGTHY_FUNCTIONS.items,
                  "VALID_FUNCTION_LENGTHS", "INVALID_FUNCTION_LENGTH_CHECKBOXES", FALSE)
        t4 == AddCheckboxes(t3, sfi.HEADLESS_FUNCTIONS.items,
                  "FUNCTIONS_HAVE_HEADERS", "FUNCTIONS_WITHOUT_HEADERS_CHECKBOXES", FALSE)
        t5 == AddCheckboxes(t4, sfi.HEADLESS_CLASSES.items,
                  "FUNCTIONS_HAVE_HEADERS", "CLASSES_WITHOUT_HEADERS_CHECKBOXES", FALSE)
    IN  AddCheckboxes(t5, sfi.INVALID_IMPORTS.items,
                  "VALID_IMPORTS", "INVALID_IMPORT_CHECKBOXES", FALSE)

\* generate_validation_output: template_variables after its six loops.
generate_validation_output(tv, sfi) ==
    LET t1 == AddCheckboxes(tv, sfi.INVALID_LENGTHY_LINES.items,
                  "VALID_LINE_LENGTHS", "INVALID_LINE_LENGTH_CHECKBOXES", TRUE)
        t2 == AddCheckboxes(t1, sfi.INVALID_LENGTHY_VARIABLES.items,
                  "VALID_VARIABLE_LENGTHS", "INVALID_VARIABLE_LENGTH_CHECKBOXES", TRUE)
        t3 == AddCheckboxes(t2, sfi.INVALID_LENGTHY_FUNCTIONS.items,
                  "VALID_FUNCTION_LENGTHS", "INVALID_FUNCTION_LENGTH_CHECKBOXES", FALSE)
        t4 == AddCheckboxes(t3, sfi.HEADLESS_FUNCTIONS.items,
                  "FUNCTIONS_HAVE_HEADERS", "FUNCTIONS_WITHOUT_HEADERS_CHECKBOXES", FALSE)
        t5 == AddCheckboxes(t4, sfi.HEADLESS_CLASSES.items,
                  "CLASSES_HAVE_HEADERS", "CLASSES_WITHOUT_HEADERS_CHECKBOXES", FALSE)
    IN  AddCheckboxes(t5, sfi.INVALID_IMPORTS.items,
                  "VALID_IMPORTS", "INVALID_IMPORT_CHECKBOXES", FALSE)

convert_bool_to_checkbox_value(value) == IF value THEN "X" ELSE " "

\* The replacement write_validation_output puts in place of each variable
\* of the template.
Replacement(tv, variable) ==
    IF variable \in FlagNames THEN <<convert_bool_to_checkbox_value(tv[variable])>>
    ELSE IF variable = "SCRIPT_NAME"
    THEN (IF tv[variable] = "" THEN <<"None :)">> ELSE <<tv[variable]>>)
    ELSE IF tv[variable] = <<>> THEN <<"None :)">>
    ELSE tv[variable]

RenderTemplate(tv) == [variable \in DOMAIN tv |-> Replacement(tv, variable)]

\* path_to_output_md_file, relative to the output directory
OutputName(script_name) == <<script_name, "_validation_output.md">>

\* Lines 288-296 of parse_python_file: the checks in order, each result
\* stored before the next check runs; an exception ends them.
Checked(err, tv, sfi) == [err |-> err, tv |-> tv, sfi |-> sfi]

RunChecks(file, base, tv, sfi) ==
    LET lines == file.lines
        tv1 == [tv EXCEPT !.SCRIPT_NAME = base]
        header == check_for_file_header(file, lines)
        tv2 == [tv1 EXCEPT !.FILE_HEADER_EXISTS = header.val,
                           !.EXCEPTABLE_FILE_SIZE = check_file_too_large(lines)]
        sfi2 == [sfi EXCEPT
                   !.INVALID_LENGTHY_LINES = List(check_implementation_line_length(lines)),
                   !.INVALID_LENGTHY_VARIABLES =
                        List(check_implementation_variable_length(lines))]
        long == check_functions_less_than_40_lines(file)
        sfi3 == [sfi2 EXCEPT !.INVALID_LENGTHY_FUNCTIONS = List(long.val)]
        headless == check_functions_headers(file)
        sfi4 == [sfi3 EXCEPT !.HEADLESS_FUNCTIONS = List(headless.val)]
        classes == check_class_headers(file)
        sfi5 == [sfi4 EXCEPT !.HEADLESS_CLASSES = List(classes.val)]
    IN  IF header.err # "none" THEN Checked(header.err, tv1, sfi)
        ELSE IF long.err # "none" THEN Checked(long.err, tv2, sfi2)
        ELSE IF headless.err # "none" THEN Checked(headless.err, tv2, sfi3)
        ELSE IF classes.err # "none" THEN Checked(classes.err, tv2, sfi4)
        ELSE Checked("none", tv2,
                    [sfi5 EXCEPT !.INVALID_IMPORTS = List(check_invalid_imports(lines))])

\* write_validation_output: the output directory after the report of tv is
\* written; open(path, 'w') replaces a file of the same name. The template
\* file is taken to exist and to hold every placeholder.
write_validation_output(tv, dir) ==
    LET name == OutputName(tv.SCRIPT_NAME)
    IN  [exists |-> TRUE,
         files |-> {f \in dir.files : f.name # name}
                   \cup {[name |-> name, text |-> RenderTemplate(tv)]}]

\* ------------------------------------------------------------ inputs
\* The contents a python file of the directory may have.
LongLinesFile ==
    MkFile(Concat(Stmt(StmtLine(MAX_LINE_CHARACTERS)),
           Concat(Stmt(StmtLine(MAX_LINE_CHARACTERS + 1)),
           Concat(Stmt(StmtCommentLine(MAX_LINE_CHARACTERS - 3)),
           Concat(Comment(2 * MAX_LINE_CHARACTERS),
                  Stmt(StmtLine(MAX_LINE_CHARACTERS)))))), FALSE)
ImportsFile ==
    MkFile(Concat(Stmt(FromStarLine),
           Concat(Stmt(ImportLine),
           Concat(Stmt(FromLine),
           Concat(Stmt(AssignLine("v", MAX_VARIABLE_NAME_LENGTH + 1)),
           Concat(Stmt(AssignLine("MAX_RETRY_COUNT_FOR_THE_CONNECTION", 34)),
                  Stmt(AssignLine("v", MAX_VARIABLE_NAME_LENGTH))))))), TRUE)
ManyViolationsFile ==
    MkFile(Concat(Stmt(StmtLine(MAX_LINE_CHARACTERS + 1)),
           Concat(Stmt(StmtLine(MAX_LINE_CHARACTERS + 2)),
           Concat(Stmt(FromStarLine), Func("f", 0, 1, FALSE)))), TRUE)
FileTable ==
    << MkFile(EmptyPiece, TRUE),
       MkFile(Garbage, TRUE),
       MkFile(Concat(Comment(0), Garbage), TRUE),
       MkFile(Blank, TRUE),
       MkFile(Comment(0), TRUE),
       MkFile(Concat(Blank, ModuleDoc), TRUE),
       MkFile(Concat(Comment(0), Func("f", 3, 2, FALSE)), TRUE),
       MkFile(Concat(ModuleDoc,
              Concat(Comment(0),
              Concat(Class("K", 0),
              Concat(Comment(0), Concat(Blank, Class("L", 0)))))), TRUE),
       LongLinesFile,
       ImportsFile,
       ManyViolationsFile,
       MkFile(Func("f", 0, 1, FALSE), TRUE),
       MkFile(Concat(Func("f", 0, MAX_LINES_PER_METHOD, FALSE), Comment(0)), TRUE),
       MkFile(Concat(Class("K", 0), Comment(0)), FALSE),
       MkFile(Concat(Comment(0), Func("h", 0, MAX_LINES_PER_METHOD + 1, FALSE)), TRUE),
       MkFile(Concat(Comment(0), Func("g", 3, MAX_LINES_PER_METHOD - 1, TRUE)), TRUE),
       MkFile(Concat(Comment(0),
              Concat(Blank, Func("__init__", 0, MAX_LINES_PER_METHOD + 1, FALSE))), TRUE),
       MkFile(Concat(Comment(0), Concat(Blank, Func("__f__", 1, 1, FALSE))), TRUE) >>

\* os.path.basename of the paths get_all_python_files may find; every file
\* is in a subdirectory of its own, so the paths are distinct.
BaseNames == {"a.py", "b.py"}

\* ------------------------------------------------------------ state
VARIABLES
    pc,                         \* where parse_directory / parse_python_file is
    idx,                        \* number of files parse_python_file was called for
    cur,                        \* the file being parsed: its index in FileTable
    base,                       \* os.path.basename of its path
    template_variables,         \* the global dictionary of report fields
    specific_file_information,  \* the global dictionary of violation lists
    output_dir,                 \* code_validation_output/: exists, files
    raised,                     \* the exception that left parse_directory
    nonempty_files              \* files read so far that have at least one line

vars == <<pc, idx, cur, base, template_variables, specific_file_information,
          output_dir, raised, nonempty_files>>

\* Only specific_file_information is made anew after the first call.
set_data_for_parsing_keeps_report ==
    [tv |-> IF idx = 0 THEN FreshTemplateVariables ELSE template_variables,
     sfi |-> FreshFileInformation]

\* set_data_for_parsing: both globals are bound to new dictionaries.
set_data_for_parsing ==
    [tv |-> FreshTemplateVariables, sfi |-> FreshFileInformation]

\* The return on a file without lines left out.
IsEmptyNever(lines) == FALSE

\* len(lines) == 0
IsEmpty(lines) == Len(lines) = 0

\* The exception caught around the checks, and the file skipped.
AfterChecksCaught(err) == IF err = "none" THEN "generate" ELSE "idle"

\* Where control goes after lines 288-296: on, or out of parse_python_file
\* and parse_directory with the exception (neither catches anything).
AfterChecks(err) == IF err = "none" THEN "generate" ELSE "error"

Init ==
    /\ pc = "idle"
    /\ idx = 0
    /\ cur = 0
    /\ base = ""
    /\ template_variables = Undefined
    /\ specific_file_information = Undefined
    /\ output_dir = [exists |-> FALSE, files |-> {}]
    /\ raised = "none"
    /\ nonempty_files = 0

\* parse_directory takes the next file of python_files and calls
\* parse_python_file, which first calls set_data_for_parsing.
StartFile ==
    /\ pc = "idle"
    /\ idx < MaxFiles
    /\ \E f \in 1..Len(FileTable), b \in BaseNames :
          /\ cur' = f
          /\ base' = b
    /\ idx' = idx + 1
    /\ template_variables' = set_data_for_parsing.tv
    /\ specific_file_information' = set_data_for_parsing.sfi
    /\ pc' = "read"
    /\ UNCHANGED <<output_dir, raised, nonempty_files>>

\* lines = python_file.readlines(); a file without lines returns.
ReadLines ==
    /\ pc = "read"
    /\ IF IsEmpty(FileTable[cur].lines)
       THEN pc' = "idle" /\ UNCHANGED nonempty_files
       ELSE pc' = "checks" /\ nonempty_files' = nonempty_files + 1
    /\ UNCHANGED <<idx, cur, base, template_variables, specific_file_information,
                   output_dir, raised>>

\* Lines 288-296: the checks fill the globals, or one of them raises.
Check ==
    /\ pc = "checks"
    /\ LET r == RunChecks(FileTable[cur], base, template_variables,
                          specific_file_information)
       IN  /\ template_variables' = r.tv
           /\ specific_file_information' = r.sfi
           /\ raised' = r.err
           /\ pc' = AfterChecks(r.err)
    /\ UNCHANGED <<idx, cur, base, output_dir, nonempty_files>>

\* Line 297.
Generate ==
    /\ pc = "generate"
    /\ template_variables' =
          generate_validation_output(template_variables, specific_file_information)
    /\ pc' = "write"
    /\ UNCHANGED <<idx, cur, base, specific_file_information, output_dir, raised,
                   nonempty_files>>

\* Line 298, and the return to the loop of parse_directory.
Write ==
    /\ pc = "write"
    /\ output_dir' = write_validation_output(template_variables, output_dir)
    /\ pc' = "idle"
    /\ UNCHANGED <<idx, cur, base, template_variables, specific_file_information,
                   raised, nonempty_files>>

\* The loop of parse_directory ends: the run completes without error.
Finish ==
    /\ pc = "idle"
    /\ idx = MaxFiles
    /\ pc' = "done"
    /\ UNCHANGED <<idx, cur, base, template_variables, specific_file_information,
                   output_dir, raised, nonempty_files>>

Next == StartFile \/ ReadLines \/ Check \/ Generate \/ Write \/ Finish

Spec == Init /\ [][Next]_vars

\* ------------------------------------------------------------ properties
\* The file being parsed, what readlines() and splitlines() give for it, and
\* its function definitions.
CurFile == FileTable[cur]
CurLines == CurFile.lines
CurCodeLines == SplitLines(CurLines)
CurFunctions == {k \in 1..Len(CurFile.nodes) : CurFile.nodes[k].type = "FunctionDef"}
Items(list) == {list.items[k] : k \in 1..Len(list.items)}

\* C1: at the start of each parse_python_file call (right after
\* set_data_for_parsing) every flag is true, every checkbox string is empty and
\* every violation list is unset, whatever the previous file left behind.
C1_FreshAtStart ==
    pc = "read" =>
        /\ template_variables.SCRIPT_NAME = ""
        /\ \A f \in FlagNames : template_variables[f] = TRUE
        /\ \A c \in CheckboxNames : template_variables[c] = <<>>
        /\ \A l \in ListNames : ~specific_file_information[l].set

\* A second file is about to be read after a first one whose report, with a
\* violation in it, was written.
C1_Witness ==
    /\ pc = "read"
    /\ idx >= 2
    /\ \E f \in output_dir.files : f.text.VALID_LINE_LENGTHS = <<" ">>

\* C2 as claimed: after a run that completes without error the output
\* directory holds as many reports as input files with at least one line
\* were processed.
C2_OneReportPerFile ==
    pc = "done" => Cardinality(output_dir.files) = nonempty_files

\* The number of characters of a line of the file, its line ending aside,
\* after removing a trailing '#' comment.
NonCommentLength(line) == StrLen(SubComment(SplitLine(line)))

\* C3 as claimed: once the checks have run, a line that is not a comment has
\* its number in INVALID_LENGTHY_LINES exactly when its non-comment characters
\* exceed 150.
C3_LineLengthBoundary ==
    pc = "generate" =>
        \A i \in 1..Len(CurLines) :
            ~StartsWithHash(CurLines[i]) =>
                (i \in Items(specific_file_information.INVALID_LENGTHY_LINES)
                    <=> NonCommentLength(CurLines[i]) > MAX_LINE_CHARACTERS)

\* The functions of the file whose definition line contains 'def __'.
CurDunderFunctions ==
    {k \in CurFunctions : HasDefDunder(CurCodeLines[CurFile.nodes[k].lineno])}

RECURSIVE StripTrailingComments(_)
StripTrailingComments(ls) ==
    IF ls # <<>> /\ StartsWithHash(ls[Len(ls)])
    THEN StripTrailingComments(SubSeq(ls, 1, Len(ls) - 1))
    ELSE ls

\* The number of newline-separated lines that remain of a function's span
\* once the trailing comment lines and the docstring blocks are stripped.
RemainingLines(node) ==
    CountNL(remove_docstring(JoinNL(
        StripTrailingComments(SubSeq(CurCodeLines, node.lineno, node.end_lineno))))) + 1

\* C5 as claimed: a function is in INVALID_LENGTHY_FUNCTIONS exactly when more
\* than 40 lines remain (41 is a violation, 40 is not), and then
\* VALID_FUNCTION_LENGTHS is false.
C5_FunctionLengthBoundary ==
    pc = "write" =>
        \A k \in CurFunctions :
            LET long == CurFile.nodes[k].name
                            \in Items(specific_file_information.INVALID_LENGTHY_FUNCTIONS)
            IN  /\ long <=> RemainingLines(CurFile.nodes[k]) > MAX_LINES_PER_METHOD
                /\ long => ~template_variables.VALID_FUNCTION_LENGTHS

\* C6: an exception raised while a file is processed ends the run: the step
\* that raises it writes nothing and leaves parse_directory, and no step is
\* taken once an exception is raised (no report for that file, no later file
\* read, the earlier reports as they were).
C6_ErrorEndsRun ==
    [][/\ raised = "none"
       /\ raised' # "none" => (output_dir' = output_dir /\ pc' = "error")]_vars

\* A file that is not python raised SyntaxError while files remain unread.
C6_Witness ==
    /\ pc = "error"
    /\ raised = "SyntaxError"
    /\ idx < MaxFiles

\* C7: reading a file with zero lines returns to parse_directory, which goes
\* on with the next file, and writes nothing: the output directory is
\* unchanged.
C7_EmptyFileSkipped ==
    [][(pc = "read" /\ Len(FileTable[cur].lines) = 0) =>
          (pc' = "idle" /\ output_dir' = output_dir /\ raised' = "none")]_vars

\* The first file had zero lines: it was skipped, no output directory was
\* made, and the next file can be started.
C7_Witness ==
    /\ pc = "idle"
    /\ idx > 0
    /\ idx < MaxFiles
    /\ Len(FileTable[cur].lines) = 0
    /\ ~output_dir.exists

\* C8 as claimed: for every definition of the file, at 0-indexed line s,
\* check_module_using_comment_header returns without raising, and returns
\* true exactly when s >= 1 and the line above begins, stripped, with '#'.
C8_CommentHeaderAbove ==
    pc = "generate" =>
        \A k \in 1..Len(CurFile.nodes) :
            LET s == CurFile.nodes[k].lineno - 1
                r == check_module_using_comment_header(CurCodeLines, s)
            IN  /\ r.err = "none"
                /\ r.val <=> (s >= 1 /\ StartsWithHash(CurCodeLines[s]))

\* C9 as claimed: for a syntactically valid file with at least one line,
\* check_for_file_header does not raise and FILE_HEADER_EXISTS is true exactly
\* when the first line is a comment or the first statement is a string.
C9_FileHeaderTotal ==
    (pc \in {"generate", "error"} /\ CurFile.valid) =>
        /\ raised = "none"
        /\ template_variables.FILE_HEADER_EXISTS
              <=> (StartsWithHash(CurLines[1]) \/ CurFile.body0 = "str")

\* The six categories: the violation list, its flag, its checkbox string and
\* whether its items are line numbers.
Category(list, flag, boxes, numbered) ==
    [list |-> list, flag |-> flag, boxes |-> boxes, numbered |-> numbered]
Categories ==
    {Category("INVALID_LENGTHY_LINES", "VALID_LINE_LENGTHS",
              "INVALID_LINE_LENGTH_CHECKBOXES", TRUE),
     Category("INVALID_LENGTHY_VARIABLES", "VALID_VARIABLE_LENGTHS",
              "INVALID_VARIABLE_LENGTH_CHECKBOXES", TRUE),
     Category("INVALID_LENGTHY_FUNCTIONS", "VALID_FUNCTION_LENGTHS",
              "INVALID_FUNCTION_LENGTH_CHECKBOXES", FALSE),
     Category("HEADLESS_FUNCTIONS", "FUNCTIONS_HAVE_HEADERS",
              "FUNCTIONS_WITHOUT_HEADERS_CHECKBOXES", FALSE),
     Category("HEADLESS_CLASSES", "CLASSES_HAVE_HEADERS",
              "CLASSES_WITHOUT_HEADERS_CHECKBOXES", FALSE),
     Category("INVALID_IMPORTS", "VALID_IMPORTS", "INVALID_IMPORT_CHECKBOXES", FALSE)}

\* C10: after generate_validation_output, for each of the six categories the
\* flag is false exactly when the list is non-empty, and the checkbox string
\* is one unchecked checkbox line per item of the list, in the list's order
\* (so it is empty exactly when the flag is true), whatever the other
\* categories hold.
C10_FlagsAndCheckboxes ==
    pc = "write" =>
        \A c \in Categories :
            LET items == specific_file_information[c.list].items
            IN  /\ template_variables[c.flag] <=> (items = <<>>)
                /\ template_variables[c.boxes] =
                      [k \in 1..Len(items) |->
                          [mark |-> " ",
                           text |-> IF c.numbered THEN <<"Line Number - ", items[k]>>
                                    ELSE items[k]]]
                /\ template_variables[c.flag] <=> (template_variables[c.boxes] = <<>>)

\* A report is about to be written with two long lines, a function without
\* header and an invalid import, and no class without header.
C10_Witness ==
    /\ pc = "write"
    /\ Len(specific_file_information.INVALID_LENGTHY_LINES.items) >= 2
    /\ specific_file_information.HEADLESS_FUNCTIONS.items # <<>>
    /\ specific_file_information.INVALID_IMPORTS.items # <<>>
    /\ specific_file_information.HEADLESS_CLASSES.items = <<>>

====
